---- MODULE Spec2Model ----
(***************************************************************************)
(* Model of the simulation path of the pass-through proxy (src/src/rpc.rs): *)
(* eth_estimateGas and eth_call build a transaction environment, apply the  *)
(* state overrides to a per-request CacheDB over a lazily fetching backend, *)
(* run the transaction and translate the engine's result.                   *)
(*                                                                         *)
(* Rust Option<T> is modelled as a sequence of length 0 or 1: None is <<>>, *)
(* Some(x) is <<x>>.  Byte strings are sequences of numbers.  The 64-bit    *)
(* gas type is scaled down to GasBits bits so that TLC can enumerate it.    *)
(***************************************************************************)
EXTENDS Integers, Sequences, FiniteSets, TLC

\* ------------------------------------------------------------------ bounds
NumReq == 2
MaxBlock == 1
GasBits == 4

\* ------------------------------------------------------------------ options
None == << >>
Some(x) == << x >>
IsSome(o) == o # << >>
Unwrap(o) == o[1]
UnwrapOr(o, d) == IF o = << >> THEN d ELSE o[1]

\* ------------------------------------------------------------------ domains
ReqIds == 1 .. NumReq
Blocks == 0 .. MaxBlock
Addr == {"zero", "a1", "a2", "a3", "a4"}
Keys == {"k0", "k1"}
ZERO == "zero"
NoBytes == << >>
P1 == << 1 >>
P2 == << 2 >>
U64_MAX == 2 ^ GasBits - 1
IntrinsicGas == 2

\* ------------------------------------------------------------------ remote node
\* The upstream node behind the shared provider: account and storage values
\* as a function of the block they are read at.
RemoteBalance(b, a) == IF a = "a1" THEN 1 ELSE 0
RemoteNonce(b, a) == IF a = "a1" THEN 1 + b ELSE 0
RemoteCode(b, a) ==
    CASE a = "a2" -> "sload"
      [] a = "a3" -> "revert"
      [] a = "a4" -> "invalid"
      [] OTHER -> "none"
RemoteStorage(b, a, k) ==
    IF a = "a2" THEN (IF k = "k0" THEN 1 + b ELSE 3 + b) ELSE 0
RemoteAccount(b, a) ==
    [balance |-> RemoteBalance(b, a), nonce |-> RemoteNonce(b, a),
     code |-> RemoteCode(b, a)]

\* ------------------------------------------------------------------ requests
Call(a) == [kind |-> "Call", addr |-> a]
AccountOverride(bal, diff) == [balance |-> bal, state_diff |-> diff]

\* The state_override argument: None, or a map Address -> AccountOverride.
OverrideChoices ==
    { None,
      Some([a \in {} |-> AccountOverride(None, None)]),
      Some([a \in {"a1"} |-> AccountOverride(Some(5), None)]),
      Some([a \in {"a2"} |-> AccountOverride(None, Some([k \in {"k0"} |-> 7]))]),
      Some([a \in {"a2"} |-> AccountOverride(Some(4), Some([k \in {"k0"} |-> 7]))]),
      Some([a \in {"a1", "a2"} |->
              IF a = "a1" THEN AccountOverride(Some(5), None)
              ELSE AccountOverride(None, Some([k \in Keys |-> IF k = "k0" THEN 7 ELSE 8]))]) }

Methods == {"estimateGas", "call"}
GasChoices == {None, Some(IntrinsicGas + 1), Some(U64_MAX + 1 + IntrinsicGas + 1)}

\* The arguments of one eth_estimateGas / eth_call request.
Requests ==
    [ method : Methods,
      from : {None, Some("a1")},
      to : {None, Some(Call("a2")), Some(Call("a3")), Some(Call("a4"))},
      value : {None, Some(2)},
      input : {None, Some(P1)},
      data : {None, Some(P1)},
      gas : GasChoices,
      gas_price : {None, Some(1)},
      nonce : {None, Some(1)},
      block_number : {None, Some(0)},
      state_override : OverrideChoices, address : {None} ]

\* The arguments of one eth_getBalance request, a pass-through method.
BalanceRequests ==
    [ method : {"getBalance"}, from : {None}, to : {None}, value : {None}, input : {None},
      data : {None}, gas : {None}, gas_price : {None}, nonce : {None},
      block_number : {None, Some(0)}, state_override : {None},
      address : {Some("a1"), Some("a2")} ]

\* ------------------------------------------------------------------ transaction environment
\* TxEnv::default() of the engine.
DefaultTx ==
    [caller |-> ZERO, data |-> NoBytes, value |-> 0, nonce |-> None,
     transact_to |-> Call(ZERO), gas_limit |-> U64_MAX, gas_price |-> 0]

\* Mutant of ClampGas: an `as u64` cast, which keeps the low bits.
WrapGas(g) == g % (U64_MAX + 1)

\* g.try_into().unwrap_or(u64::MAX)
ClampGas(g) == IF g <= U64_MAX THEN g ELSE U64_MAX

\* The payload field each handler reads: estimate_gas reads request.input.input,
\* call reads request.input.data.
PayloadField(rq) == IF rq.method = "estimateGas" THEN rq.input ELSE rq.data

\* Mutant of BuildTx: an absent nonce is defaulted to zero.
BuildTxNonceDefault(rq) ==
    [caller |-> UnwrapOr(rq.from, DefaultTx.caller),
     data |-> UnwrapOr(PayloadField(rq), NoBytes),
     value |-> UnwrapOr(rq.value, 0),
     nonce |-> Some(UnwrapOr(rq.nonce, 0)),
     transact_to |-> UnwrapOr(rq.to, DefaultTx.transact_to),
     gas_limit |-> IF IsSome(rq.gas) THEN ClampGas(Unwrap(rq.gas)) ELSE DefaultTx.gas_limit,
     gas_price |-> UnwrapOr(rq.gas_price, DefaultTx.gas_price)]

\* The closure given to modify_tx_env.
BuildTx(rq) ==
    [caller |-> UnwrapOr(rq.from, DefaultTx.caller),
     data |-> UnwrapOr(PayloadField(rq), NoBytes),
     value |-> UnwrapOr(rq.value, 0),
     nonce |-> rq.nonce,
     transact_to |-> UnwrapOr(rq.to, DefaultTx.transact_to),
     gas_limit |-> IF IsSome(rq.gas) THEN ClampGas(Unwrap(rq.gas)) ELSE DefaultTx.gas_limit,
     gas_price |-> UnwrapOr(rq.gas_price, DefaultTx.gas_price)]

\* ------------------------------------------------------------------ state
VARIABLES
    head,      \* the remote chain's latest block
    req,       \* req[r]: the arguments of request r
    pc,        \* pc[r]: where the handler of request r stands
    tx,        \* tx[r]: the transaction environment of request r's Evm
    db,        \* db[d]: accounts of CacheDB d (Address -> Option<DbAccount>)
    todo,      \* todo[r]: addresses of the override map not yet visited
    cur,       \* cur[r]: the override address being applied
    keys,      \* keys[r]: storage keys of cur[r] not yet written
    prog,      \* prog[r]: storage keys the running contract has still to read
    reads,     \* reads[r]: the (address, key, value) reads the engine has made
    result,    \* result[r]: Option<ExecutionResult> of the engine
    failed,    \* failed[r]: some remote fetch of request r has failed
    outcome,   \* outcome[r]: Option<RpcResult> returned to the caller
    seen,      \* seen[r]: the blocks the fetches of request r were resolved at
    asked,     \* asked[r]: the accounts <<a>> and slots <<a, k>> request r has asked the node for
    again,     \* again[r]: those it has asked the node for more than once
    once       \* once[r]: the overlay after the override set was applied once, when it is applied again

vars == << head, req, pc, tx, db, todo, cur, keys, prog, reads, result, failed, outcome,
          seen, asked, again, once >>

\* Mutant of DbOf: one CacheDB kept in the proxy and used by every request.
DbOfShared(r) == 1

\* The CacheDB a request works on: a fresh one per call of the handler.
DbOf(r) == r

EmptyDb == [a \in Addr |-> None]

\* ------------------------------------------------------------------ CacheDB over the backend
\* Mutant of BlockOf: the block argument is not handed to the backend.
BlockOfLatest(r) == head

\* SharedBackend::spawn_backend_thread(provider, db, block_number): the block
\* every fetch of request r asks the node for; without a pinned block the
\* backend asks for BlockId::default(), the latest block at the time of the fetch.
BlockOf(r) == UnwrapOr(req[r].block_number, head)

NewDbAccount(info) == [info |-> info, storage |-> [k \in Keys |-> None]]

Cached(d, a) == IsSome(db[d][a])
SlotCached(d, a, k) == Cached(d, a) /\ IsSome(Unwrap(db[d][a]).storage[k])

\* CacheDB::load_account with a successful basic_ref: the accounts map afterwards.
LoadAccount(accts, a, blk) ==
    IF IsSome(accts[a]) THEN accts
    ELSE [accts EXCEPT ![a] = Some(NewDbAccount(RemoteAccount(blk, a)))]

\* Mutant of OverriddenInfo: the record is built anew around the balance.
OverriddenInfoDefault(info, balance) == [balance |-> balance, nonce |-> 0, code |-> "none"]

\* `account_info.info.balance = balance` on the clone of the loaded account.
OverriddenInfo(info, balance) == [info EXCEPT !.balance = balance]

\* CacheDB::insert_account_info: only the info of the entry is replaced.
InsertAccountInfo(accts, a, info) ==
    [accts EXCEPT ![a] =
        IF IsSome(accts[a]) THEN Some([Unwrap(accts[a]) EXCEPT !.info = info])
        ELSE Some(NewDbAccount(info))]

\* A write of one slot that would replace the whole storage of the account,
\* as CacheDB::replace_account_storage does: the other slots read as zero.
ReplaceAccountStorage(accts, a, k, v) ==
    [accts EXCEPT ![a] =
        Some([Unwrap(accts[a]) EXCEPT !.storage = [j \in Keys |-> IF j = k THEN Some(v) ELSE Some(0)]])]

\* CacheDB::insert_account_storage after its load_account succeeded.
InsertAccountStorage(accts, a, k, v) ==
    [accts EXCEPT ![a] = Some([Unwrap(accts[a]) EXCEPT !.storage[k] = Some(v)])]

\* CacheDB::storage for a loaded account: the cached slot, else the slot
\* fetched from the backend and cached.
StorageAfterRead(accts, a, k, blk) ==
    IF IsSome(Unwrap(accts[a]).storage[k]) THEN accts
    ELSE InsertAccountStorage(accts, a, k, RemoteStorage(blk, a, k))

\* ------------------------------------------------------------------ results
OkGas(g) == [kind |-> "Ok", class |-> "", what |-> "gas", gas |-> g, data |-> NoBytes]
OkBytes(b) == [kind |-> "Ok", class |-> "", what |-> "bytes", gas |-> 0, data |-> b]
OkBalance(b) == [kind |-> "Ok", class |-> "", what |-> "balance", gas |-> 0, data |-> << b >>]
\* EthApiError::InvalidParams(e.to_string())
InvalidParams(what) ==
    [kind |-> "Err", class |-> "InvalidParams", what |-> what, gas |-> 0, data |-> NoBytes]
\* An error of the simulation wrongly put in the class of the pass-through errors.
EvmCustomAsInvalidParams(what) == InvalidParams(what)
\* EthApiError::EvmCustom(e.to_string())
EvmCustom(what) ==
    [kind |-> "Err", class |-> "EvmCustom", what |-> what, gas |-> 0, data |-> NoBytes]
\* EthApiError::InvalidTransaction(RpcInvalidTransactionError::Revert / ::halt)
InvalidTransaction(what, g, d) ==
    [kind |-> "Err", class |-> "InvalidTransaction", what |-> what, gas |-> g, data |-> d]

ExecSuccess(g, out) == [tag |-> "Success", gas_used |-> g, output |-> out]
ExecRevert(g, out) == [tag |-> "Revert", gas_used |-> g, output |-> out]
ExecHalt(g) == [tag |-> "Halt", gas_used |-> g, output |-> NoBytes]

\* reth_rpc_eth_types::error::ensure_success
EnsureSuccess(res) ==
    CASE res.tag = "Success" -> OkBytes(res.output)
      [] res.tag = "Revert" -> InvalidTransaction("Revert", 0, res.output)
      [] OTHER -> InvalidTransaction("Halt", res.gas_used, NoBytes)

\* Mutant of Translate: estimate_gas answers gas_used without looking at
\* ensure_success.
TranslateKeepGas(method, res) ==
    IF method = "estimateGas" THEN OkGas(res.gas_used) ELSE EnsureSuccess(res)

\* The tail of each handler: estimate_gas keeps gas_used and answers it when
\* ensure_success passes, call answers the bytes of ensure_success.
Translate(method, res) ==
    IF method = "estimateGas"
    THEN (IF EnsureSuccess(res).kind = "Ok" THEN OkGas(res.gas_used) ELSE EnsureSuccess(res))
    ELSE EnsureSuccess(res)

\* ------------------------------------------------------------------ engine
SloadProgram == << "k1", "k0" >>

\* validate_initial_tx_gas: base cost plus the cost of the input bytes.
InitialGas(t) == IntrinsicGas + Len(t.data)

\* validate_tx_against_state on the loaded caller account: "" when it passes.
ValidateAgainstState(t, info) ==
    CASE info.code # "none" -> "RejectCallerWithCode"
      [] IsSome(t.nonce) /\ Unwrap(t.nonce) > info.nonce -> "NonceTooHigh"
      [] IsSome(t.nonce) /\ Unwrap(t.nonce) < info.nonce -> "NonceTooLow"
      [] t.gas_limit * t.gas_price + t.value > info.balance -> "LackOfFundForMaxFee"
      [] OTHER -> ""

Target(r) == tx[r].transact_to.addr
TargetCode(r) == Unwrap(db[DbOf(r)][Target(r)]).info.code
GasSpent(r) == InitialGas(tx[r]) + (Len(SloadProgram) - Len(prog[r]))
OutOfGas(r) == prog[r] # << >> /\ GasSpent(r) + 1 > tx[r].gas_limit

\* The ExecutionResult of the frame once the contract has stopped.
FrameResult(r) ==
    CASE OutOfGas(r) -> ExecHalt(tx[r].gas_limit)
      [] TargetCode(r) = "sload" ->
            ExecSuccess(GasSpent(r),
                        << Unwrap(Unwrap(db[DbOf(r)][Target(r)]).storage["k0"]) >>)
      [] TargetCode(r) = "revert" -> ExecRevert(InitialGas(tx[r]), tx[r].data)
      [] TargetCode(r) = "invalid" -> ExecHalt(tx[r].gas_limit)
      [] OTHER -> ExecSuccess(InitialGas(tx[r]), NoBytes)

\* ------------------------------------------------------------------ initial states
IdleRequest ==
    [method |-> "call", from |-> None, to |-> None, value |-> None, input |-> None,
     data |-> None, gas |-> None, gas_price |-> None, nonce |-> None,
     block_number |-> None, state_override |-> None, address |-> None]

InitCommon ==
    /\ head = 0
    /\ tx = [r \in ReqIds |-> DefaultTx]
    /\ db = [d \in ReqIds |-> EmptyDb]
    /\ todo = [r \in ReqIds |-> {}]
    /\ cur = [r \in ReqIds |-> ZERO]
    /\ keys = [r \in ReqIds |-> {}]
    /\ prog = [r \in ReqIds |-> << >>]
    /\ reads = [r \in ReqIds |-> {}]
    /\ result = [r \in ReqIds |-> None]
    /\ failed = [r \in ReqIds |-> FALSE]
    /\ outcome = [r \in ReqIds |-> None]
    /\ seen = [r \in ReqIds |-> {}]
    /\ asked = [r \in ReqIds |-> {}]
    /\ again = [r \in ReqIds |-> {}]
    /\ once = [r \in ReqIds |-> None]

\* One request, with any arguments.
Init ==
    /\ InitCommon
    /\ \E rq \in Requests : req = [r \in ReqIds |-> IF r = 1 THEN rq ELSE IdleRequest]
    /\ pc = [r \in ReqIds |-> IF r = 1 THEN "start" ELSE "idle"]

\* ------------------------------------------------------------------ handler steps
\* The requests in ks go out to the remote node, pinned to the block of r.
Asks(r, ks) ==
    /\ asked' = [asked EXCEPT ![r] = @ \cup ks]
    /\ again' = [again EXCEPT ![r] = @ \cup (ks \cap asked[r])]
    /\ seen' = [seen EXCEPT ![r] = IF ks = {} THEN @ ELSE @ \cup {BlockOf(r)}]

NoAsk == UNCHANGED << seen, asked, again >>

Fail(r, err) ==
    /\ outcome' = [outcome EXCEPT ![r] = Some(err)]
    /\ pc' = [pc EXCEPT ![r] = "done"]

\* balance(): the provider is asked for the balance at the given block, or at
\* the latest one; its error is answered as InvalidParams.
Balance(r, ok) ==
    LET a == Unwrap(req[r].address)
    IN
    /\ pc[r] = "start"
    /\ req[r].method = "getBalance"
    /\ Fail(r, IF ok THEN OkBalance(RemoteBalance(BlockOf(r), a)) ELSE InvalidParams("Transport"))
    /\ failed' = [failed EXCEPT ![r] = ~ok]
    /\ Asks(r, {<< a >>})
    /\ UNCHANGED << once, head, req, tx, db, todo, cur, keys, prog, reads, result >>

\* An override loop that would go on to the next entry when the account fetch
\* of a balance override fails.
OverrideAccountSkip(r, a, ok) ==
    /\ pc[r] = "override"
    /\ keys[r] = {}
    /\ a \in todo[r]
    /\ ~ok
    /\ IsSome(Unwrap(req[r].state_override)[a].balance)
    /\ ~Cached(DbOf(r), a)
    /\ todo' = [todo EXCEPT ![r] = @ \ {a}]
    /\ failed' = [failed EXCEPT ![r] = TRUE]
    /\ Asks(r, {<< a >>})
    /\ UNCHANGED << once, head, req, pc, tx, db, cur, keys, prog, reads, result, outcome >>

\* Evm::builder().with_db(CacheDB::new(..)).modify_tx_env(..).build()
Build(r) ==
    /\ pc[r] = "start"
    /\ req[r].method \in Methods
    /\ tx' = [tx EXCEPT ![r] = BuildTx(req[r])]
    /\ todo' = [todo EXCEPT ![r] =
                  IF IsSome(req[r].state_override)
                  THEN DOMAIN Unwrap(req[r].state_override) ELSE {}]
    /\ pc' = [pc EXCEPT ![r] = "override"]
    /\ NoAsk
    /\ UNCHANGED << once, head, req, db, cur, keys, prog, reads, result, failed, outcome >>

\* One iteration of `for (address, account) in overrides.iter()`: the balance
\* part; the storage keys of the entry are left in keys[r].
OverrideAccount(r, a, ok) ==
    LET d == DbOf(r)
        ov == Unwrap(req[r].state_override)[a]
        loaded == LoadAccount(db[d], a, BlockOf(r))
        info == OverriddenInfo(Unwrap(loaded[a]).info, Unwrap(ov.balance))
    IN
    /\ pc[r] = "override"
    /\ keys[r] = {}
    /\ a \in todo[r]
    /\ (~IsSome(ov.balance) \/ Cached(d, a)) => ok
    /\ IF ok
       THEN /\ db' = [db EXCEPT ![d] =
                        IF IsSome(ov.balance) THEN InsertAccountInfo(loaded, a, info)
                        ELSE db[d]]
            /\ todo' = [todo EXCEPT ![r] = @ \ {a}]
            /\ cur' = [cur EXCEPT ![r] = a]
            /\ keys' = [keys EXCEPT ![r] =
                          IF IsSome(ov.state_diff) THEN DOMAIN Unwrap(ov.state_diff) ELSE {}]
            /\ UNCHANGED << pc, outcome, failed >>
       ELSE /\ Fail(r, EvmCustom("Database"))
            /\ failed' = [failed EXCEPT ![r] = TRUE]
            /\ UNCHANGED << db, todo, cur, keys >>
    /\ Asks(r, IF IsSome(ov.balance) /\ ~Cached(d, a) THEN {<< a >>} ELSE {})
    /\ UNCHANGED << once, head, req, tx, prog, reads, result >>

\* `let _ = evm.db_mut().insert_account_storage(address, key, value)`: the
\* Result is dropped, so a failed load of the account leaves the slot unwritten
\* and the loop goes on.
OverrideStorage(r, k, ok) ==
    LET d == DbOf(r)
        a == cur[r]
        v == Unwrap(Unwrap(req[r].state_override)[a].state_diff)[k]
    IN
    /\ pc[r] = "override"
    /\ k \in keys[r]
    /\ Cached(d, a) => ok
    /\ keys' = [keys EXCEPT ![r] = @ \ {k}]
    /\ IF ok
       THEN /\ db' = [db EXCEPT ![d] =
                        InsertAccountStorage(LoadAccount(db[d], a, BlockOf(r)), a, k, v)]
            /\ UNCHANGED failed
       ELSE /\ failed' = [failed EXCEPT ![r] = TRUE]
            /\ UNCHANGED db
    /\ Asks(r, IF Cached(d, a) THEN {} ELSE {<< a >>})
    /\ UNCHANGED << once, head, req, pc, tx, todo, cur, prog, reads, result, outcome >>

\* evm.transact(), first part: validation of the environment, of the initial
\* gas and of the transaction against the caller's account, which is loaded
\* through the CacheDB.
Validate(r, ok) ==
    LET d == DbOf(r)
        t == tx[r]
        loaded == LoadAccount(db[d], t.caller, BlockOf(r))
        verdict == ValidateAgainstState(t, Unwrap(loaded[t.caller]).info)
    IN
    /\ pc[r] = "override"
    /\ todo[r] = {}
    /\ keys[r] = {}
    /\ (t.gas_limit < InitialGas(t) \/ Cached(d, t.caller)) => ok
    /\ IF t.gas_limit < InitialGas(t)
       THEN /\ Fail(r, EvmCustom("CallGasCostMoreThanGasLimit"))
            /\ UNCHANGED << db, failed >>
       ELSE IF ~ok
       THEN /\ Fail(r, EvmCustom("Database"))
            /\ failed' = [failed EXCEPT ![r] = TRUE]
            /\ UNCHANGED db
       ELSE /\ db' = [db EXCEPT ![d] = loaded]
            /\ UNCHANGED failed
            /\ IF verdict # ""
               THEN Fail(r, EvmCustom(verdict))
               ELSE /\ pc' = [pc EXCEPT ![r] = "call"]
                    /\ UNCHANGED outcome
    /\ Asks(r, IF t.gas_limit < InitialGas(t) \/ Cached(d, t.caller) THEN {} ELSE {<< t.caller >>})
    /\ UNCHANGED << once, head, req, tx, todo, cur, keys, prog, reads, result >>

\* evm.transact(): the call frame loads the target account and its code.
LoadTarget(r, ok) ==
    LET d == DbOf(r)
        a == Target(r)
        loaded == LoadAccount(db[d], a, BlockOf(r))
    IN
    /\ pc[r] = "call"
    /\ Cached(d, a) => ok
    /\ IF ok
       THEN /\ db' = [db EXCEPT ![d] = loaded]
            /\ prog' = [prog EXCEPT ![r] =
                          IF Unwrap(loaded[a]).info.code = "sload" THEN SloadProgram
                          ELSE << >>]
            /\ pc' = [pc EXCEPT ![r] = "run"]
            /\ UNCHANGED << outcome, failed >>
       ELSE /\ Fail(r, EvmCustom("Database"))
            /\ failed' = [failed EXCEPT ![r] = TRUE]
            /\ UNCHANGED << db, prog >>
    /\ Asks(r, IF Cached(d, a) THEN {} ELSE {<< a >>})
    /\ UNCHANGED << once, head, req, tx, todo, cur, keys, reads, result >>

\* A storage read that would ask again after a failed fetch instead of ending
\* the request.
SloadRetry(r, ok) ==
    /\ pc[r] = "run"
    /\ prog[r] # << >>
    /\ ~OutOfGas(r)
    /\ ~ok
    /\ ~SlotCached(DbOf(r), Target(r), Head(prog[r]))
    /\ failed' = [failed EXCEPT ![r] = TRUE]
    /\ Asks(r, {<< Target(r), Head(prog[r]) >>})
    /\ UNCHANGED << once, head, req, pc, tx, db, todo, cur, keys, prog, reads, result, outcome >>

\* evm.transact(): the contract reads its next storage slot through the CacheDB.
Sload(r, ok) ==
    LET d == DbOf(r)
        a == Target(r)
        k == Head(prog[r])
        after == StorageAfterRead(db[d], a, k, BlockOf(r))
    IN
    /\ pc[r] = "run"
    /\ prog[r] # << >>
    /\ ~OutOfGas(r)
    /\ SlotCached(d, a, k) => ok
    /\ IF ok
       THEN /\ db' = [db EXCEPT ![d] = after]
            /\ reads' = [reads EXCEPT ![r] =
                           @ \cup { << a, k, Unwrap(Unwrap(after[a]).storage[k]) >> }]
            /\ prog' = [prog EXCEPT ![r] = Tail(@)]
            /\ UNCHANGED << pc, outcome, failed >>
       ELSE /\ Fail(r, EvmCustom("Database"))
            /\ failed' = [failed EXCEPT ![r] = TRUE]
            /\ UNCHANGED << db, reads, prog >>
    /\ Asks(r, IF SlotCached(d, a, k) THEN {} ELSE {<< a, k >>})
    /\ UNCHANGED << once, head, req, tx, todo, cur, keys, result >>

\* evm.transact(), last part, and the tail of the handler: the frame ends, the
\* beneficiary (the default coinbase, the zero address) is loaded to be
\* rewarded, and the ExecutionResult is translated to the RpcResult.
Finish(r, ok) ==
    LET d == DbOf(r)
        res == FrameResult(r)
    IN
    /\ pc[r] = "run"
    /\ prog[r] = << >> \/ OutOfGas(r)
    /\ Cached(d, ZERO) => ok
    /\ IF ok
       THEN /\ db' = [db EXCEPT ![d] = LoadAccount(db[d], ZERO, BlockOf(r))]
            /\ result' = [result EXCEPT ![r] = Some(res)]
            /\ Fail(r, Translate(req[r].method, res))
            /\ UNCHANGED failed
       ELSE /\ Fail(r, EvmCustom("Database"))
            /\ failed' = [failed EXCEPT ![r] = TRUE]
            /\ UNCHANGED << db, result >>
    /\ Asks(r, IF Cached(d, ZERO) THEN {} ELSE {<< ZERO >>})
    /\ UNCHANGED << once, head, req, tx, todo, cur, keys, prog, reads >>

\* The remote chain grows while requests are being served.
AdvanceHead ==
    /\ head < MaxBlock
    /\ \E r \in ReqIds : pc[r] \notin {"idle", "done"}
    /\ head' = head + 1
    /\ NoAsk
    /\ UNCHANGED << once, req, pc, tx, db, todo, cur, keys, prog, reads, result, failed, outcome >>

Next ==
    \/ \E r \in ReqIds : Build(r)
    \/ \E r \in ReqIds, a \in Addr, ok \in BOOLEAN : OverrideAccount(r, a, ok)
    \/ \E r \in ReqIds, k \in Keys, ok \in BOOLEAN : OverrideStorage(r, k, ok)
    \/ \E r \in ReqIds, ok \in BOOLEAN : Validate(r, ok)
    \/ \E r \in ReqIds, ok \in BOOLEAN : LoadTarget(r, ok)
    \/ \E r \in ReqIds, ok \in BOOLEAN : Sload(r, ok)
    \/ \E r \in ReqIds, ok \in BOOLEAN : Finish(r, ok)
    \/ AdvanceHead

Spec == Init /\ [][Next]_vars

\* ------------------------------------------------------------------ concurrent requests
\* Requests served at the same time by the one PassthroughProxy: every id
\* carries a request that touches the accounts the others touch too.
ConcSeq ==
    << [IdleRequest EXCEPT !.to = Some(Call("a2")), !.block_number = Some(0),
                           !.state_override =
                               Some([a \in {"a2"} |-> AccountOverride(Some(4), Some([k \in {"k0"} |-> 7]))])],
       [IdleRequest EXCEPT !.to = Some(Call("a2"))],
       [IdleRequest EXCEPT !.to = Some(Call("a2")), !.block_number = Some(0)],
       [IdleRequest EXCEPT !.from = Some("a1"), !.value = Some(2), !.to = Some(Call("a3"))] >>
ConcRequests == { ConcSeq[i] : i \in 1 .. Len(ConcSeq) }

\* The handlers do not know the ids, so the requests are handed out in the
\* order of ConcSeq: a permutation of the ids gives the same behaviours.
InitConc ==
    /\ InitCommon
    /\ \E f \in [ReqIds -> 1 .. Len(ConcSeq)] :
          /\ \A i, j \in ReqIds : i <= j => f[i] <= f[j]
          /\ req = [r \in ReqIds |-> ConcSeq[f[r]]]
    /\ pc = [r \in ReqIds |-> "start"]

SpecConc == InitConc /\ [][Next]_vars

\* ------------------------------------------------------------------ the override set applied twice
\* The loop `for (address, account) in overrides.iter()` is run a second time
\* on the overlay the first run has left.
Reapply(r) ==
    /\ pc[r] = "override"
    /\ todo[r] = {}
    /\ keys[r] = {}
    /\ IsSome(req[r].state_override)
    /\ ~IsSome(once[r])
    /\ once' = [once EXCEPT ![r] = Some(db[DbOf(r)])]
    /\ todo' = [todo EXCEPT ![r] = DOMAIN Unwrap(req[r].state_override)]
    /\ NoAsk
    /\ UNCHANGED << head, req, pc, tx, db, cur, keys, prog, reads, result, failed, outcome >>

\* A call to a2 with any of the override sets.
InitTwice ==
    /\ InitCommon
    /\ \E ov \in OverrideChoices \ {None}, f \in {None, Some("a1")} :
          req = [r \in ReqIds |->
                    IF r = 1
                    THEN [IdleRequest EXCEPT !.to = Some(Call("a2")), !.from = f,
                                             !.state_override = ov]
                    ELSE IdleRequest]
    /\ pc = [r \in ReqIds |-> IF r = 1 THEN "start" ELSE "idle"]

NextTwice ==
    \/ Next
    \/ \E r \in ReqIds : Reapply(r)

SpecTwice == InitTwice /\ [][NextTwice]_vars

\* ------------------------------------------------------------------ a simulation beside a pass-through
\* A call with a balance override of one address and a storage override of
\* another.
TwoOverrides ==
    [IdleRequest EXCEPT !.to = Some(Call("a2")),
                        !.state_override =
                            Some([a \in {"a1", "a2"} |->
                                     IF a = "a1" THEN AccountOverride(Some(5), None)
                                     ELSE AccountOverride(None, Some([k \in {"k0"} |-> 7]))])]

\* One simulation served beside one eth_getBalance or one plain call.
InitErr ==
    /\ InitCommon
    /\ \E rq \in ConcRequests \cup {TwoOverrides}, bq \in BalanceRequests \cup {ConcSeq[2]} :
          req = [r \in ReqIds |-> IF r = 1 THEN rq ELSE IF r = 2 THEN bq ELSE IdleRequest]
    /\ pc = [r \in ReqIds |-> IF r <= 2 THEN "start" ELSE "idle"]

NextErr ==
    \/ Next
    \/ \E r \in ReqIds, ok \in BOOLEAN : Balance(r, ok)

SpecErr == InitErr /\ [][NextErr]_vars

\* ================================================================== claims
Built(r) == pc[r] \notin {"idle", "start"}
Done(r) == pc[r] = "done"
Overrides(r) == Unwrap(req[r].state_override)
\* The storage override of request r names (a, k).
OverridesSlot(r, a, k) ==
    /\ IsSome(req[r].state_override)
    /\ a \in DOMAIN Overrides(r)
    /\ IsSome(Overrides(r)[a].state_diff)
    /\ k \in DOMAIN Unwrap(Overrides(r)[a].state_diff)
SlotOverride(r, a, k) == Unwrap(Overrides(r)[a].state_diff)[k]
ExecutionReverted(o) == o.kind = "Err" /\ o.class = "InvalidTransaction"
SetupFailure(o) == o.kind = "Err" /\ o.class = "EvmCustom"

\* C1: every read of a storage slot (A, K) that the request's state override
\* names with value V returns V, never the remote node's value.
C1_OverrideShadowsRemote ==
    \A r \in ReqIds : \A rd \in reads[r] :
        OverridesSlot(r, rd[1], rd[2]) => rd[3] = SlotOverride(r, rd[1], rd[2])

\* C2: a Success of the engine is answered with the gas used (estimateGas) or
\* the returned bytes (call); a Revert or Halt is answered by both methods with
\* an Execution Reverted error carrying the returned data or the halt; and
\* estimateGas answers a gas value only for a Success.
C2_ResultTranslation ==
    \A r \in ReqIds :
        /\ (Done(r) /\ IsSome(result[r])) =>
              LET res == Unwrap(result[r])
                  o == Unwrap(outcome[r])
              IN /\ res.tag = "Success" =>
                        /\ o.kind = "Ok"
                        /\ req[r].method = "estimateGas" => (o.what = "gas" /\ o.gas = res.gas_used)
                        /\ req[r].method = "call" => (o.what = "bytes" /\ o.data = res.output)
                 /\ res.tag = "Revert" =>
                        (ExecutionReverted(o) /\ o.what = "Revert" /\ o.data = res.output)
                 /\ res.tag = "Halt" =>
                        (ExecutionReverted(o) /\ o.what = "Halt" /\ o.gas = res.gas_used)
        /\ (Done(r) /\ Unwrap(outcome[r]).kind = "Ok") =>
              (IsSome(result[r]) /\ Unwrap(result[r]).tag = "Success")

\* C2 witness: an estimateGas request whose engine result was a Revert has been
\* answered with the error.
C2_Witness ==
    \E r \in ReqIds :
        /\ Done(r) /\ req[r].method = "estimateGas"
        /\ IsSome(result[r]) /\ Unwrap(result[r]).tag = "Revert"
        /\ Unwrap(result[r]).output = P1
        /\ ExecutionReverted(Unwrap(outcome[r]))

\* C3: every failure before the engine produced an outcome is answered as a
\* Setup Failure, a category other than Execution Reverted; and an Execution
\* Reverted error is answered only when the engine returned Revert or Halt.
C3_FailuresAreSetupFailures ==
    \A r \in ReqIds : Done(r) =>
        /\ failed[r] => SetupFailure(Unwrap(outcome[r]))
        /\ ExecutionReverted(Unwrap(outcome[r])) =>
              (IsSome(result[r]) /\ Unwrap(result[r]).tag \in {"Revert", "Halt"})

\* C4: `input` and `data` are synonyms: a payload carried by only one of them is
\* the input data of the transaction environment, for both methods; the input
\* data is empty only when neither is supplied.
C4_InputDataSynonyms ==
    \A r \in ReqIds : Built(r) =>
        /\ (IsSome(req[r].input) /\ ~IsSome(req[r].data)) => tx[r].data = Unwrap(req[r].input)
        /\ (IsSome(req[r].data) /\ ~IsSome(req[r].input)) => tx[r].data = Unwrap(req[r].data)
        /\ tx[r].data = NoBytes => (~IsSome(req[r].input) /\ ~IsSome(req[r].data))

\* C5: a request with a recipient targets that address; a request with no
\* recipient is built as a contract creation, not as a call to any address.
C5_NoRecipientIsCreate ==
    \A r \in ReqIds : Built(r) =>
        /\ IsSome(req[r].to) => tx[r].transact_to = Unwrap(req[r].to)
        /\ ~IsSome(req[r].to) => tx[r].transact_to.kind = "Create"

\* C6 (as stated): the environment's nonce is the request's nonce when
\* supplied, and otherwise the caller account's current nonce from the overlay.
C6_NonceDefaultsToAccountNonce ==
    \A r \in ReqIds : Built(r) =>
        /\ IsSome(req[r].nonce) => tx[r].nonce = req[r].nonce
        /\ ~IsSome(req[r].nonce) =>
              /\ Cached(DbOf(r), tx[r].caller)
              /\ tx[r].nonce = Some(Unwrap(db[DbOf(r)][tx[r].caller]).info.nonce)

\* C6 (amended): the environment's nonce is the request's nonce when supplied;
\* when the request supplies none the environment's nonce stays absent, and
\* the request is never answered with a nonce mismatch, whatever the caller's
\* current nonce.
C6_NonceIsRequestNonce ==
    \A r \in ReqIds : Built(r) =>
        /\ tx[r].nonce = req[r].nonce
        /\ (~IsSome(req[r].nonce) /\ Done(r)) =>
              Unwrap(outcome[r]).what \notin {"NonceTooHigh", "NonceTooLow"}

\* C6 witness: a request without a nonce has passed validation against a
\* caller whose fetched nonce is not zero.
C6_Witness ==
    \E r \in ReqIds :
        /\ pc[r] = "call" /\ ~IsSome(req[r].nonce) /\ tx[r].nonce = None
        /\ Cached(DbOf(r), tx[r].caller)
        /\ Unwrap(db[DbOf(r)][tx[r].caller]).info.nonce > 0

\* C7: a requested gas limit that fits the gas type is kept, a larger one
\* becomes exactly the maximum of the type (no wrap-around, no truncation), and
\* without a requested gas limit the engine's default is kept.
C7_GasLimitClamped ==
    \A r \in ReqIds : Built(r) =>
        /\ tx[r].gas_limit \in 0 .. U64_MAX
        /\ (IsSome(req[r].gas) /\ Unwrap(req[r].gas) <= U64_MAX) =>
              tx[r].gas_limit = Unwrap(req[r].gas)
        /\ (IsSome(req[r].gas) /\ Unwrap(req[r].gas) > U64_MAX) =>
              tx[r].gas_limit = U64_MAX
        /\ ~IsSome(req[r].gas) => tx[r].gas_limit = DefaultTx.gas_limit

\* C7 witness: a request asking for more gas than the type holds has been built
\* and carried on with the maximum.
C7_Witness ==
    \E r \in ReqIds :
        /\ pc[r] = "call" /\ IsSome(req[r].gas)
        /\ Unwrap(req[r].gas) > U64_MAX /\ tx[r].gas_limit = U64_MAX

\* C8: applying a balance override B to address A leaves A's record with
\* balance B and the nonce and code fetched from the remote node (or already
\* cached); no other address's record and no storage slot changes.
C8_BalanceOverrideFrame ==
    [][\A r \in ReqIds : \A a \in Addr :
          (pc[r] = "override" /\ a \in todo[r] /\ a \notin todo'[r]
             /\ IsSome(Overrides(r)[a].balance)) =>
          LET d == DbOf(r)
              new == Unwrap(db'[d][a])
          IN /\ IsSome(db'[d][a])
             /\ new.info.balance = Unwrap(Overrides(r)[a].balance)
             /\ new.info.nonce = IF Cached(d, a) THEN Unwrap(db[d][a]).info.nonce
                                 ELSE RemoteNonce(BlockOf(r), a)
             /\ new.info.code = IF Cached(d, a) THEN Unwrap(db[d][a]).info.code
                                ELSE RemoteCode(BlockOf(r), a)
             /\ \A k \in Keys :
                   new.storage[k] = IF Cached(d, a) THEN Unwrap(db[d][a]).storage[k] ELSE None
             /\ \A b \in Addr \ {a} : db'[d][b] = db[d][b]
             /\ \A e \in ReqIds \ {d} : db'[e] = db[e]
      ]_vars

\* C8 witness: the balance override of a contract account has been applied.
C8_Witness ==
    \E r \in ReqIds :
        /\ pc[r] = "override" /\ cur[r] = "a2" /\ "a2" \notin todo[r]
        /\ IsSome(req[r].state_override) /\ "a2" \in DOMAIN Overrides(r)
        /\ Overrides(r)["a2"].balance = Some(4)
        /\ Cached(DbOf(r), "a2")
        /\ Unwrap(db[DbOf(r)]["a2"]).info = [balance |-> 4, nonce |-> 0, code |-> "sload"]

\* C9: a call whose sender's remote balance is below the value succeeds with a
\* balance override on the sender of at least the value, and without the
\* override fails with an Execution Reverted error.  (Stated for a plain
\* transfer: no gas, gas price or nonce in the request, no failed fetch.)
C9_BalanceOverrideScenario ==
    \A r \in ReqIds :
        LET c == tx[r].caller
            overridden == /\ IsSome(req[r].state_override)
                          /\ c \in DOMAIN Overrides(r)
                          /\ IsSome(Overrides(r)[c].balance)
        IN (/\ Done(r) /\ req[r].method = "call" /\ ~failed[r]
            /\ req[r].to = None /\ req[r].gas = None /\ req[r].gas_price = None
            /\ req[r].nonce = None
            /\ \A b \in Blocks : RemoteBalance(b, c) < tx[r].value) =>
           /\ (overridden /\ Unwrap(Overrides(r)[c].balance) >= tx[r].value) =>
                 Unwrap(outcome[r]).kind = "Ok"
           /\ ~overridden => ExecutionReverted(Unwrap(outcome[r]))

\* C10: concurrent requests are isolated: a step changes the handler state and
\* the overlay of one request only, and every value in a request's overlay is
\* one of its own overrides or a value of the remote node.
Private(s) ==
    << pc[s], tx[s], db[DbOf(s)], todo[s], cur[s], keys[s], prog[s], reads[s],
       result[s], failed[s], outcome[s], seen[s], asked[s], again[s] >>
OwnBalance(s, a) ==
    /\ IsSome(req[s].state_override)
    /\ a \in DOMAIN Overrides(s)
    /\ Overrides(s)[a].balance = Some(Unwrap(db[DbOf(s)][a]).info.balance)
OwnValues ==
    \A s \in ReqIds : \A a \in Addr :
        Cached(DbOf(s), a) =>
          /\ \/ OwnBalance(s, a)
             \/ \E b \in Blocks : Unwrap(db[DbOf(s)][a]).info.balance = RemoteBalance(b, a)
          /\ \A k \in Keys :
                LET slot == Unwrap(db[DbOf(s)][a]).storage[k]
                IN IsSome(slot) =>
                     \/ OverridesSlot(s, a, k) /\ Unwrap(slot) = SlotOverride(s, a, k)
                     \/ \E b \in Blocks : Unwrap(slot) = RemoteStorage(b, a, k)
C10_Isolation ==
    [][/\ Cardinality({s \in ReqIds : Private(s)' # Private(s)}) <= 1
       /\ OwnValues'
      ]_vars

\* C10 witness: two requests are in flight, one holding its override of slot
\* (a2, k0), the other the remote value of the same slot.
C10_Witness ==
    \E r, s \in ReqIds :
        /\ r # s /\ pc[r] = "run" /\ pc[s] = "run"
        /\ SlotCached(DbOf(r), "a2", "k0") /\ SlotCached(DbOf(s), "a2", "k0")
        /\ OverridesSlot(r, "a2", "k0")
        /\ Unwrap(db[DbOf(r)]["a2"]).storage["k0"] = Some(7)
        /\ Unwrap(db[DbOf(s)]["a2"]).storage["k0"] # Some(7)

\* C11: two simulations of the same request with no overrides, the same block
\* reference and an unchanged remote state (no fetch failed, and for a request
\* without a block reference every fetch of both met the same chain head) are
\* answered identically, whatever else ran before or between them.
NoOverrides(r) ==
    ~IsSome(req[r].state_override) \/ DOMAIN Overrides(r) = {}
Simulation(r) == req[r].method \in Methods
PassThrough(r) == req[r].method = "getBalance"
UpstreamError(o) == o.kind = "Err" /\ o.class = "InvalidParams"
\* The request failed in a fetch before the engine gave a result.
FetchFailure(r) == Simulation(r) /\ Done(r) /\ failed[r] /\ Unwrap(outcome[r]).kind = "Err"

\* C12: a setup failure of estimateGas / call is reported in the error class
\* of an upstream error of the pass-through methods (invalid params).
C12_SetupFailureInUpstreamClass ==
    \A r, s \in ReqIds :
        (FetchFailure(r) /\ PassThrough(s) /\ Done(s) /\ failed[s]) =>
            Unwrap(outcome[r]).class = Unwrap(outcome[s]).class

\* C12, as the code has it: a simulation that fails without an engine result
\* answers an EvmCustom error with the message of the cause, a failed
\* pass-through answers an InvalidParams error with the message of the
\* provider, and the two classes differ.
C12_SetupFailureIsEvmCustom ==
    \A r, s \in ReqIds :
        /\ (Simulation(r) /\ Done(r) /\ ~IsSome(result[r])) =>
               /\ SetupFailure(Unwrap(outcome[r]))
               /\ ~UpstreamError(Unwrap(outcome[r]))
               /\ Unwrap(outcome[r]).what # ""
        /\ (PassThrough(s) /\ Done(s) /\ failed[s]) =>
               /\ UpstreamError(Unwrap(outcome[s]))
               /\ Unwrap(outcome[s]).what = "Transport"
        /\ (PassThrough(s) /\ Done(s) /\ ~failed[s]) => Unwrap(outcome[s]).kind = "Ok"

C12_Witness ==
    \E r, s \in ReqIds :
        /\ FetchFailure(r) /\ ~IsSome(result[r]) /\ reads[r] = {}
        /\ outcome[r] = Some(EvmCustom("Database"))
        /\ PassThrough(s) /\ outcome[s] = Some(InvalidParams("Transport"))

\* ------------------------------------------------------------------ C13
\* C13: within one simulation the remote node is asked at most once for every
\* address and every (address, storage key), and never for a key already
\* present in the overlay.
C13_AtMostOneFetch ==
    \A r \in ReqIds : Simulation(r) => again[r] = {}

\* ------------------------------------------------------------------ C14
\* C14: every remote fetch of one simulation resolves against the same block,
\* also when the request names no block and the remote head advances between
\* two of its fetches.
C14_OneBlockPerSimulation ==
    \A r \in ReqIds : Simulation(r) => Cardinality(seen[r]) <= 1

\* ------------------------------------------------------------------ C15
\* The engine of request r has started its call frame.
Executing(r) == pc[r] \in {"call", "run"}
\* The entry of address a of the override set of r is in the overlay.
Applied(r, a) ==
    LET ov == Overrides(r)[a]
        d == DbOf(r)
    IN
    /\ IsSome(ov.balance) =>
           Cached(d, a) /\ Unwrap(db[d][a]).info.balance = Unwrap(ov.balance)
    /\ IsSome(ov.state_diff) =>
           \A k \in DOMAIN Unwrap(ov.state_diff) :
               SlotCached(d, a, k) /\ Unwrap(db[d][a]).storage[k] = Some(Unwrap(ov.state_diff)[k])

\* C15: the engine is never started before every entry of the override set has
\* been applied to the overlay, and no override is applied once it has started.
C15_OverridesBeforeExecution ==
    \A r \in ReqIds :
        (Simulation(r) /\ Executing(r)) =>
            /\ todo[r] = {} /\ keys[r] = {}
            /\ IsSome(req[r].state_override) => \A a \in DOMAIN Overrides(r) : Applied(r, a)

\* ------------------------------------------------------------------ C16
\* A fetch of request r fails in a step other than the write of a storage
\* override: in the merge of a balance override or inside the engine.
FetchFails(r) ==
    \/ \E a \in Addr : OverrideAccount(r, a, FALSE)
    \/ Validate(r, FALSE)
    \/ LoadTarget(r, FALSE)
    \/ Sload(r, FALSE)
    \/ Finish(r, FALSE)

C17_BalanceMergeFailure ==
    [][\A r \in ReqIds :
          /\ (\E a \in Addr : OverrideAccount(r, a, FALSE)) =>
                /\ pc'[r] = "done"
                /\ outcome'[r] = Some(EvmCustom("Database"))
                /\ result'[r] = None /\ reads'[r] = {} /\ prog'[r] = << >>
                /\ \A s \in ReqIds \ {r} : Private(s)' = Private(s)
          /\ Done(r) => Private(r)' = Private(r)
          /\ OwnValues'
          /\ \A rd \in reads'[r] :
                \/ OverridesSlot(r, rd[1], rd[2])
                \/ \E b \in Blocks : rd[3] = RemoteStorage(b, rd[1], rd[2])
      ]_vars

\* The balance merge of a1 failed after the storage override of a2 had been
\* written; another call has read the remote value of that slot.
C17_Witness ==
    \E r, s \in ReqIds :
        /\ r # s /\ req[r] = TwoOverrides /\ Done(r) /\ todo[r] = {"a1"}
        /\ outcome[r] = Some(EvmCustom("Database")) /\ ~IsSome(result[r])
        /\ SlotCached(DbOf(r), "a2", "k0")
        /\ Unwrap(db[DbOf(r)]["a2"]).storage["k0"] = Some(7)
        /\ Done(s) /\ NoOverrides(s)
        /\ \E b \in Blocks : outcome[s] = Some(OkBytes(<< RemoteStorage(b, "a2", "k0") >>))

\* ------------------------------------------------------------------ C18
\* C18: no failure is swallowed: once an override or fetch step of a request
\* has failed, the request does not go on to execution and does not answer a
\* success value.
C18_NoSwallowedFailure ==
    \A r \in ReqIds :
        (Simulation(r) /\ failed[r]) =>
            /\ Done(r)
            /\ Unwrap(outcome[r]).kind = "Err"

\* ------------------------------------------------------------------ C19
\* The override set of r has been applied a second time.
AppliedTwice(r) ==
    pc[r] = "override" /\ todo[r] = {} /\ keys[r] = {} /\ IsSome(once[r])

\* C19: applying the override set twice in a row yields the overlay (account
\* records and storage) that applying it once yields.
C19_Idempotent ==
    \A r \in ReqIds : AppliedTwice(r) => db[DbOf(r)] = Unwrap(once[r])

\* ------------------------------------------------------------------ C20
\* C20: writing a storage override (K -> V) of address A changes the slot
\* (A, K) of the overlay only: the balance, nonce and code of A stay as they
\* were (a balance override of A in the same set included; the remote record
\* when A is loaded by this write), every other slot of A and every other
\* address stay unchanged, and a slot the override does not name is read from
\* the remote node when the engine first reads it.
C20_StorageOverrideFrame ==
    [][\A r \in ReqIds :
          /\ (\E k \in Keys : OverrideStorage(r, k, TRUE)) =>
                LET d == DbOf(r)
                    a == cur[r]
                    ov == Overrides(r)[a]
                    k == CHOOSE j \in keys[r] : j \notin keys'[r]
                    new == Unwrap(db'[d][a])
                IN /\ IsSome(db'[d][a])
                   /\ new.storage[k] = Some(Unwrap(ov.state_diff)[k])
                   /\ new.info = IF Cached(d, a) THEN Unwrap(db[d][a]).info
                                 ELSE RemoteAccount(BlockOf(r), a)
                   /\ IsSome(ov.balance) => new.info.balance = Unwrap(ov.balance)
                   /\ \A j \in Keys \ {k} :
                         new.storage[j] = IF Cached(d, a) THEN Unwrap(db[d][a]).storage[j] ELSE None
                   /\ \A b \in Addr \ {a} : db'[d][b] = db[d][b]
                   /\ \A e \in ReqIds \ {d} : db'[e] = db[e]
          /\ (Simulation(r) /\ Sload(r, TRUE)) =>
                LET a == Target(r)
                    k == Head(prog[r])
                IN (~SlotCached(DbOf(r), a, k)) =>
                      /\ << a, k >> \notin asked[r] /\ << a, k >> \in asked'[r]
                      /\ << a, k, RemoteStorage(BlockOf(r), a, k) >> \in reads'[r]
      ]_vars

\* The storage override of (a2, k0) has been written beside a balance override
\* of a2, and the engine has read the unnamed slot (a2, k1) from the remote node.
C20_Witness ==
    \E r \in ReqIds :
        /\ OverridesSlot(r, "a2", "k0") /\ ~OverridesSlot(r, "a2", "k1")
        /\ IsSome(Overrides(r)["a2"].balance)
        /\ SlotCached(DbOf(r), "a2", "k0")
        /\ Unwrap(db[DbOf(r)]["a2"]).storage["k0"] = Some(7)
        /\ Unwrap(db[DbOf(r)]["a2"]).info.balance = Unwrap(Overrides(r)["a2"].balance)
        /\ << "a2", "k1" >> \in asked[r]
        /\ \E b \in Blocks : << "a2", "k1", RemoteStorage(b, "a2", "k1") >> \in reads[r]
====
